---- MODULE Spec2Model ----
(***************************************************************************)
(* Model of the portfolio dashboard (src/app.py) and of the daily brief    *)
(* generator (src/scripts/generate_daily_brief.py): the three quote        *)
(* providers, the failover in fetch_prices, the valuation rows and totals, *)
(* and the brief's advisory rules and snapshot.                            *)
(*                                                                         *)
(* Conventions.  Python's None is the empty set and a present value x is   *)
(* {x} (None, Some, Val).  A dict is a function whose DOMAIN is its key    *)
(* set.  Prices, share counts and money are integers; a quotient a / b is  *)
(* kept exact as the fraction [num |-> a, den |-> b] with den > 0.  A code *)
(* is the sequence of its decimal digits, so "1" is <<1>> and "000001" is  *)
(* <<0,0,0,0,0,1>>.  A text field of a provider reply is a token: Num(n)   *)
(* for text that float() parses to n, Bad for text it rejects (or a        *)
(* missing JSON field).                                                    *)
(***************************************************************************)
EXTENDS Integers, Sequences, FiniteSets, TLC

----------------------------------------------------------------------------
(* Bounds of the explored inputs *)

\* longest holdings list enumerated exhaustively
MaxHoldings == 2

\* length of the long holdings lists (more rows than the advisory cap)
LongLen == 7

\* most lines of a Tencent reply / rows of the akshare table
MaxLines == 2

(* Program constants *)

\* str(code).zfill(6)
CodeWidth == 6

\* risk_tips[:6]
MaxTips == 6

\* r <= -0.08, in hundredths
RiskPct == -8

\* r >= 0.12, in hundredths
ProfitPct == 12

----------------------------------------------------------------------------
(* Optional values and exact fractions *)

None == {}
Some(x) == {x}
Val(o) == CHOOSE x \in o : TRUE

Frac(a, b) == [num |-> a, den |-> b]

\* a / b - 1.0
RatioMinusOne(a, b) == Frac(a - b, b)

\* f <= pct / 100 and f >= pct / 100, for f.den > 0
FracLePct(f, pct) == f.num * 100 <= pct * f.den
FracGePct(f, pct) == f.num * 100 >= pct * f.den

Max(a, b) == IF a >= b THEN a ELSE b

EmptyDict == <<>>

\* d[k] = v of a Python dict
DictPut(d, k, v) == [x \in (DOMAIN d) \cup {k} |-> IF x = k THEN v ELSE d[x]]

----------------------------------------------------------------------------
(* Codes and tokens *)

RECURSIVE zfill(_, _)
zfill(s, width) == IF Len(s) >= width THEN s ELSE zfill(<<0>> \o s, width)

Num(n) == [txt |-> "num", val |-> n]
Bad == [txt |-> "bad", val |-> 0]

safe_float(x) == IF x.txt = "num" THEN Some(x.val) ELSE None

\* `if last and last > 0`
ValidLast(last) == last # None /\ Val(last) # 0 /\ Val(last) > 0

----------------------------------------------------------------------------
(* Quote providers.  Each takes the codes and the reply the network gives, *)
(* and yields [raised, out]: whether the call raised, and the dict built.  *)

Raised == [raised |-> TRUE, out |-> EmptyDict]
Returned(out) == [raised |-> FALSE, out |-> out]

\* one line of the Tencent text: the regex match, then payload[3], payload[4]
TencentLine(out, line) ==
    IF ~line.match THEN out
    ELSE IF Len(line.payload) > 4
         THEN LET last == safe_float(line.payload[4])
                  prev_close == safe_float(line.payload[5])
              IN  IF ValidLast(last)
                  THEN DictPut(out, line.code,
                               [last |-> Val(last), prev_close |-> prev_close])
                  ELSE out
         ELSE out

RECURSIVE TencentParse(_, _)
TencentParse(out, lines) ==
    IF lines = <<>> THEN out
    ELSE TencentParse(TencentLine(out, Head(lines)), Tail(lines))

fetch_prices_tencent(codes, reply) ==
    IF reply.raises THEN Raised ELSE Returned(TencentParse(EmptyDict, reply.lines))

\* the brief's copy of the Tencent provider
fetch_tencent_quotes(codes, reply) ==
    IF reply.raises THEN Raised ELSE Returned(TencentParse(EmptyDict, reply.lines))

\* one iteration of the per-code loop: the result keeps the raw code as key
XueqiuStep(acc, code, r) ==
    IF acc.raised THEN acc
    ELSE IF r.kind = "raise" THEN Raised
    ELSE IF r.kind = "status" THEN acc
    ELSE LET last == safe_float(r.current)
             prev_close == safe_float(r.last_close)
         IN  IF ValidLast(last)
             THEN Returned(DictPut(acc.out, code,
                                   [last |-> Val(last), prev_close |-> prev_close]))
             ELSE acc

RECURSIVE XueqiuLoop(_, _, _)
XueqiuLoop(acc, codes, replies) ==
    IF codes = <<>> THEN acc
    ELSE XueqiuLoop(XueqiuStep(acc, Head(codes), Head(replies)),
                    Tail(codes), Tail(replies))

fetch_prices_xueqiu(codes, replies) ==
    XueqiuLoop(Returned(EmptyDict), codes, replies)

\* df.loc[df["代码"] == str(c).zfill(6)], then row.iloc[0]
AkRows(table, c) ==
    SelectSeq(table, LAMBDA row : zfill(row.code, CodeWidth) = zfill(c, CodeWidth))

AkStep(out, table, c) ==
    LET row == AkRows(table, c)
    IN  IF row # <<>>
        THEN DictPut(out, zfill(c, CodeWidth),
                     [last |-> row[1].price, prev_close |-> None])
        ELSE out

RECURSIVE AkLoop(_, _, _)
AkLoop(out, table, codes) ==
    IF codes = <<>> THEN out
    ELSE AkLoop(AkStep(out, table, Head(codes)), table, Tail(codes))

fetch_prices_akshare(codes, reply) ==
    IF reply.raises THEN Raised ELSE Returned(AkLoop(EmptyDict, reply.table, codes))

----------------------------------------------------------------------------
(* fetch_prices: the local state st = [quotes, used, err, escaped] of one   *)
(* call, and one operator per try block.  escaped says an exception left    *)
(* the block uncaught.  The provider labels and diagnostics are the         *)
(* source's strings, transliterated.                                        *)

\* `if quotes:` / `if not quotes:`
Truthy(d) == DOMAIN d # {}

\* preferred.startswith("雪球"): try 雪球, note an empty result
TryXueqiu(st, res) ==
    IF res.raised
    THEN [st EXCEPT !.err = Append(@, "xueqiu_failed")]
    ELSE IF Truthy(res.out)
         THEN [st EXCEPT !.quotes = res.out, !.used = Some("xueqiu")]
         ELSE [st EXCEPT !.quotes = res.out, !.err = Append(@, "xueqiu_no_data")]

\* `if not quotes:` after 雪球: is the backup called
XueqiuNeedsBackup(st) == ~Truthy(st.quotes)

\* variant: the backup call without its try/except
XueqiuTencentBackup_Uncaught(st, res) ==
    IF res.raised
    THEN [st EXCEPT !.escaped = TRUE]
    ELSE [st EXCEPT !.quotes = res.out, !.used = Some("tencent_backup")]

\* the backup call to 腾讯 after 雪球
XueqiuTencentBackup(st, res) ==
    IF res.raised
    THEN [st EXCEPT !.err = Append(@, "tencent_also_failed")]
    ELSE [st EXCEPT !.quotes = res.out, !.used = Some("tencent_backup")]

\* preferred.startswith("腾讯")
TryTencentOnly(st, res) ==
    IF res.raised
    THEN [st EXCEPT !.err = Append(@, "tencent_failed")]
    ELSE [st EXCEPT !.quotes = res.out, !.used = Some("tencent")]

\* else branch: akshare first
TryAkshare(st, res) ==
    IF res.raised
    THEN [st EXCEPT !.err = Append(@, "akshare_failed")]
    ELSE [st EXCEPT !.quotes = res.out, !.used = Some("akshare")]

\* the backup is called inside akshare's except handler only
AkshareNeedsBackup(res) == res.raised

\* the backup call to 腾讯 inside akshare's except handler
AkshareTencentBackup(st, res) ==
    IF res.raised
    THEN [st EXCEPT !.err = Append(@, "tencent_also_failed")]
    ELSE [st EXCEPT !.quotes = res.out, !.used = Some("tencent_backup")]

\* ("；".join(err) if err else None): the joined text keeps one segment per entry
JoinErr(err) == IF err = <<>> THEN None ELSE Some(err)

----------------------------------------------------------------------------
(* Valuation *)

\* variant: a code without a quote priced at zero
QuoteLast_DefaultZero(qs, code) == IF code \in DOMAIN qs THEN Some(qs[code].last) ELSE Some(0)

\* q = quotes.get(code, {}); q.get("last") / q.get("prev_close")
QuoteLast(qs, code) == IF code \in DOMAIN qs THEN Some(qs[code].last) ELSE None
QuotePrev(qs, code) == IF code \in DOMAIN qs THEN qs[code].prev_close ELSE None

\* one row of the dashboard table
AppRow(h, qs) ==
    LET code == zfill(h.code, CodeWidth)
        shares == h.shares
        cost == h.cost
        last == QuoteLast(qs, code)
        prev_close == QuotePrev(qs, code)
    IN  [code |-> code, shares |-> shares, cost |-> cost,
         prev_close |-> prev_close, last |-> last,
         mv |-> IF last # None THEN Some(Val(last) * shares) ELSE None,
         today_pnl |-> IF last # None /\ prev_close # None
                       THEN Some((Val(last) - Val(prev_close)) * shares) ELSE None,
         today_return |-> IF last # None /\ prev_close # None /\ Val(prev_close) > 0
                          THEN Some(RatioMinusOne(Val(last), Val(prev_close))) ELSE None,
         total_pnl |-> IF last # None THEN Some((Val(last) - cost) * shares) ELSE None,
         total_return |-> IF last # None /\ cost > 0
                          THEN Some(RatioMinusOne(Val(last), cost)) ELSE None]

\* one entry of the brief's pos list
BriefRow(h, qs) ==
    LET code == zfill(h.code, CodeWidth)
        shares == h.shares
        cost == h.cost
        last == QuoteLast(qs, code)
        prev == QuotePrev(qs, code)
    IN  [code |-> code, shares |-> shares, cost |-> cost,
         last |-> last, prev_close |-> prev,
         market_value |-> IF last # None THEN Some(Val(last) * shares) ELSE None,
         today_pnl |-> IF last # None /\ prev # None
                       THEN Some((Val(last) - Val(prev)) * shares) ELSE None,
         total_pnl |-> IF last # None THEN Some((Val(last) - cost) * shares) ELSE None,
         total_return |-> IF last # None /\ cost > 0
                          THEN Some(RatioMinusOne(Val(last), cost)) ELSE None]

\* cost_basis += cost * shares, over every holding
RECURSIVE CostBasis(_)
CostBasis(hs) ==
    IF hs = <<>> THEN 0 ELSE Head(hs).cost * Head(hs).shares + CostBasis(Tail(hs))

\* df[col].dropna().sum() / `if x is not None: x_sum += x`
RECURSIVE SumPresent(_)
SumPresent(col) ==
    IF col = <<>> THEN 0
    ELSE (IF Head(col) # None THEN Val(Head(col)) ELSE 0) + SumPresent(Tail(col))

Column(rs, f) == [i \in 1..Len(rs) |-> rs[i][f]]

\* the dashboard: 0.0 when there is no cost basis
AppOverallReturn(pnl, basis) ==
    IF basis > 0 THEN Some(Frac(pnl, basis)) ELSE Some(Frac(0, 1))

\* the brief: None when there is no cost basis
BriefOverallReturn(pnl, basis) ==
    IF basis > 0 THEN Some(Frac(pnl, basis)) ELSE None

\* variant: the difference without the floor at zero
AppCashEst_NoFloor(assets, mv) == assets - mv

\* cash_est = max(total_assets - mv_sum, 0.0)
AppCashEst(assets, mv) == Max(assets - mv, 0)

\* cash = max(total_assets - mv_sum, 0.0)
BriefCash(assets, mv) == Max(assets - mv, 0)

----------------------------------------------------------------------------
(* The brief's advisory rules and the secondary lookup *)

\* variant: strict comparisons against the two thresholds
TipsOfRow_Strict(tips, p, i) ==
    LET r == p.total_return
        t1 == IF r # None /\ ~FracGePct(Val(r), RiskPct)
              THEN Append(tips, [row |-> i, kind |-> "risk", r |-> Val(r)])
              ELSE tips
    IN  IF r # None /\ ~FracLePct(Val(r), ProfitPct)
        THEN Append(t1, [row |-> i, kind |-> "profit", r |-> Val(r)])
        ELSE t1

\* the two `if`s of one loop iteration; i is the row's position in pos
TipsOfRow(tips, p, i) ==
    LET r == p.total_return
        t1 == IF r # None /\ FracLePct(Val(r), RiskPct)
              THEN Append(tips, [row |-> i, kind |-> "risk", r |-> Val(r)])
              ELSE tips
    IN  IF r # None /\ FracGePct(Val(r), ProfitPct)
        THEN Append(t1, [row |-> i, kind |-> "profit", r |-> Val(r)])
        ELSE t1

RECURSIVE TipsLoop(_, _, _)
TipsLoop(tips, ps, i) ==
    IF i > Len(ps) THEN tips ELSE TipsLoop(TipsOfRow(tips, ps[i], i), ps, i + 1)

RiskTips(ps) == TipsLoop(<<>>, ps, 1)

\* risk_tips[:6]
CapTips(tips) == SubSeq(tips, 1, IF Len(tips) < MaxTips THEN Len(tips) ELSE MaxTips)

RECURSIVE YahooItems(_, _)
YahooItems(out, items) ==
    IF items = <<>> THEN out
    ELSE YahooItems(DictPut(out, Head(items).symbol, [price |-> Head(items).price]),
                    Tail(items))

\* every failure inside is caught and gives {}
fetch_yahoo(reply) ==
    IF reply.raises THEN EmptyDict ELSE YahooItems(EmptyDict, reply.items)

----------------------------------------------------------------------------
(* Inputs: holdings.json, the sidebar's choices and the network's replies *)

CodeA == <<6, 0, 0, 0, 0, 0>>
CodeB == <<1>>
RawCodes == {CodeA, CodeB}

SeqsUpTo(S, n) == UNION {[1..k -> S] : k \in 0..n}

HoldingChoices ==
    {[code |-> c, shares |-> 100, cost |-> k] : c \in RawCodes, k \in {0, 25}}
    \cup {[code |-> CodeA, shares |-> 0, cost |-> 25]}

ShortHoldings == SeqsUpTo(HoldingChoices, MaxHoldings)

\* k holdings of CodeA followed by LongLen - k holdings of CodeB, all bought at 25
LongHoldings ==
    {[i \in 1..LongLen |-> [code |-> IF i <= k THEN CodeA ELSE CodeB,
                            shares |-> 100, cost |-> 25]] : k \in 0..LongLen}

TotalAssets == {0, 2500}

\* the selectbox's three entries
Policies == {"xueqiu_first", "tencent", "akshare"}

\* the (price, previous close) fields a reply may carry
PriceFields ==
    {<<Bad, Num(25)>>, <<Num(0), Num(25)>>, <<Num(-1), Num(25)>>,
     <<Num(23), Num(25)>>, <<Num(24), Num(0)>>, <<Num(28), Bad>>}

Payload(f) == <<Bad, Bad, Bad, f[1], f[2]>>
ShortPayload == <<Bad, Bad, Bad, Num(23)>>

TencentLines ==
    {[match |-> FALSE, code |-> <<>>, payload |-> <<>>]}
    \cup {[match |-> TRUE, code |-> zfill(c, CodeWidth), payload |-> p] :
            c \in RawCodes, p \in {ShortPayload} \cup {Payload(f) : f \in PriceFields}}

TencentReplies ==
    {[raises |-> TRUE, lines |-> <<>>]}
    \cup {[raises |-> FALSE, lines |-> l] : l \in SeqsUpTo(TencentLines, MaxLines)}

XueqiuReplySet ==
    {[kind |-> "raise", current |-> Bad, last_close |-> Bad],
     [kind |-> "status", current |-> Bad, last_close |-> Bad]}
    \cup {[kind |-> "ok", current |-> f[1], last_close |-> f[2]] :
            f \in PriceFields \ {<<Num(24), Num(0)>>, <<Num(-1), Num(25)>>}}

XueqiuReplies(n) == [1..n -> XueqiuReplySet]

AkshareReplies ==
    {[raises |-> TRUE, table |-> <<>>]}
    \cup {[raises |-> FALSE, table |-> t] :
            t \in SeqsUpTo({[code |-> c, price |-> p] : c \in RawCodes, p \in {0, 23}},
                           MaxLines)}

YahooReplies ==
    {[raises |-> TRUE, items |-> <<>>],
     [raises |-> FALSE, items |-> <<>>],
     [raises |-> FALSE, items |-> <<[symbol |-> "^GSPC", price |-> 5000]>>]}

----------------------------------------------------------------------------
(* State *)

VARIABLES
    pc,             \* position of the dashboard render or of the brief's main()
    holdings, total_assets, preferred,
    quotes, used, err,      \* fetch_prices' locals; quotes is also main()'s
    errors,         \* the joined diagnostics fetch_prices returned
    calls,          \* the provider calls made so far, each with its outcome
    rows, pos,      \* the dashboard's rows, the brief's pos
    cost_basis, mv_sum, today_pnl_sum, total_pnl_sum, overall_return, cash,
    yahoo, risk_tips, brief

vars == <<pc, holdings, total_assets, preferred, quotes, used, err, errors, calls,
          rows, pos, cost_basis, mv_sum, today_pnl_sum, total_pnl_sum,
          overall_return, cash, yahoo, risk_tips, brief>>

inputVars == <<holdings, total_assets, preferred>>
valuationVars == <<rows, pos, cost_basis, mv_sum, today_pnl_sum, total_pnl_sum,
                   overall_return, cash>>
briefVars == <<yahoo, risk_tips, brief>>

\* codes = [h["code"] for h in holdings]
AppCodes == [i \in 1..Len(holdings) |-> holdings[i].code]

\* codes = [str(h["code"]).zfill(6) for h in hs]
BriefCodes == [i \in 1..Len(holdings) |-> zfill(holdings[i].code, CodeWidth)]

Outcome(res) == IF res.raised THEN "raise" ELSE IF Truthy(res.out) THEN "data" ELSE "empty"
Called(provider, res) == Append(calls, [provider |-> provider, outcome |-> Outcome(res)])

Local == [quotes |-> quotes, used |-> used, err |-> err, escaped |-> FALSE]

\* the block's effect on the locals; an uncaught exception ends the render
Store(st, next) ==
    /\ quotes' = st.quotes
    /\ used' = st.used
    /\ err' = st.err
    /\ pc' = IF st.escaped THEN "app_crashed" ELSE next

Init ==
    /\ \/ /\ pc = "app_fetch"
          /\ holdings \in ShortHoldings
          /\ preferred \in Policies
       \/ /\ pc = "brief_fetch"
          /\ holdings \in ShortHoldings \cup LongHoldings
          /\ preferred = "none"
    /\ total_assets \in TotalAssets
    /\ quotes = EmptyDict /\ used = None /\ err = <<>> /\ errors = None
    /\ calls = <<>>
    /\ rows = <<>> /\ pos = <<>>
    /\ cost_basis = 0 /\ mv_sum = 0 /\ today_pnl_sum = 0 /\ total_pnl_sum = 0
    /\ overall_return = None /\ cash = 0
    /\ yahoo = EmptyDict /\ risk_tips = <<>> /\ brief = None

----------------------------------------------------------------------------
(* The dashboard: fetch_prices(codes, preferred), then the table and totals *)

XueqiuFirst ==
    /\ pc = "app_fetch" /\ preferred = "xueqiu_first"
    /\ \E reply \in XueqiuReplies(Len(holdings)) :
          LET res == fetch_prices_xueqiu(AppCodes, reply)
          IN  /\ Store(TryXueqiu(Local, res), "app_xueqiu_backup")
              /\ calls' = Called("xueqiu", res)
    /\ UNCHANGED <<inputVars, errors, valuationVars, briefVars>>

XueqiuBackup ==
    /\ pc = "app_xueqiu_backup"
    /\ IF XueqiuNeedsBackup(Local)
       THEN \E reply \in TencentReplies :
               LET res == fetch_prices_tencent(AppCodes, reply)
               IN  /\ Store(XueqiuTencentBackup(Local, res), "app_return")
                   /\ calls' = Called("tencent", res)
       ELSE /\ pc' = "app_return"
            /\ UNCHANGED <<quotes, used, err, calls>>
    /\ UNCHANGED <<inputVars, errors, valuationVars, briefVars>>

TencentOnly ==
    /\ pc = "app_fetch" /\ preferred = "tencent"
    /\ \E reply \in TencentReplies :
          LET res == fetch_prices_tencent(AppCodes, reply)
          IN  /\ Store(TryTencentOnly(Local, res), "app_return")
              /\ calls' = Called("tencent", res)
    /\ UNCHANGED <<inputVars, errors, valuationVars, briefVars>>

AkshareFirst ==
    /\ pc = "app_fetch" /\ preferred = "akshare"
    /\ \E reply \in AkshareReplies :
          LET res == fetch_prices_akshare(AppCodes, reply)
          IN  /\ Store(TryAkshare(Local, res),
                       IF AkshareNeedsBackup(res) THEN "app_akshare_backup"
                                                  ELSE "app_return")
              /\ calls' = Called("akshare", res)
    /\ UNCHANGED <<inputVars, errors, valuationVars, briefVars>>

AkshareBackup ==
    /\ pc = "app_akshare_backup"
    /\ \E reply \in TencentReplies :
          LET res == fetch_prices_tencent(AppCodes, reply)
          IN  /\ Store(AkshareTencentBackup(Local, res), "app_return")
              /\ calls' = Called("tencent", res)
    /\ UNCHANGED <<inputVars, errors, valuationVars, briefVars>>

\* return quotes, used, (joined err or None)
FetchReturn ==
    /\ pc = "app_return"
    /\ errors' = JoinErr(err)
    /\ pc' = "app_valuate"
    /\ UNCHANGED <<inputVars, quotes, used, err, calls, valuationVars, briefVars>>

AppValuate ==
    /\ pc = "app_valuate"
    /\ LET rs == [i \in 1..Len(holdings) |-> AppRow(holdings[i], quotes)]
           basis == CostBasis(holdings)
           mv == SumPresent(Column(rs, "mv"))
           pnl == SumPresent(Column(rs, "total_pnl"))
       IN  /\ rows' = rs
           /\ cost_basis' = basis
           /\ mv_sum' = mv
           /\ today_pnl_sum' = SumPresent(Column(rs, "today_pnl"))
           /\ total_pnl_sum' = pnl
           /\ overall_return' = AppOverallReturn(pnl, basis)
           /\ cash' = AppCashEst(total_assets, mv)
    /\ pc' = "app_done"
    /\ UNCHANGED <<inputVars, quotes, used, err, errors, calls, pos, briefVars>>

----------------------------------------------------------------------------
(* The brief: main() *)

\* quotes = fetch_tencent_quotes(codes), with no handler around it
BriefFetch ==
    /\ pc = "brief_fetch"
    /\ \E reply \in TencentReplies :
          LET res == fetch_tencent_quotes(BriefCodes, reply)
          IN  /\ quotes' = res.out
              /\ calls' = Called("tencent", res)
              /\ pc' = IF res.raised THEN "brief_aborted" ELSE "brief_valuate"
    /\ UNCHANGED <<inputVars, used, err, errors, valuationVars, briefVars>>

BriefValuate ==
    /\ pc = "brief_valuate"
    /\ LET ps == [i \in 1..Len(holdings) |-> BriefRow(holdings[i], quotes)]
           basis == CostBasis(holdings)
           mv == SumPresent(Column(ps, "market_value"))
           pnl == SumPresent(Column(ps, "total_pnl"))
       IN  /\ pos' = ps
           /\ cost_basis' = basis
           /\ mv_sum' = mv
           /\ today_pnl_sum' = SumPresent(Column(ps, "today_pnl"))
           /\ total_pnl_sum' = pnl
           /\ cash' = BriefCash(total_assets, mv)
           /\ overall_return' = BriefOverallReturn(pnl, basis)
    /\ pc' = "brief_yahoo"
    /\ UNCHANGED <<inputVars, quotes, used, err, errors, calls, rows, briefVars>>

BriefYahoo ==
    /\ pc = "brief_yahoo"
    /\ \E reply \in YahooReplies : yahoo' = fetch_yahoo(reply)
    /\ pc' = "brief_build"
    /\ UNCHANGED <<inputVars, quotes, used, err, errors, calls, valuationVars,
                   risk_tips, brief>>

\* the rules, the snapshot, save_json
BriefBuild ==
    /\ pc = "brief_build"
    /\ LET tips == RiskTips(pos)
       IN  /\ risk_tips' = tips
           /\ brief' = Some([portfolio |-> [total_assets_rmb |-> total_assets,
                                            cash_rmb |-> cash,
                                            market_value_rmb |-> mv_sum,
                                            today_pnl_rmb |-> today_pnl_sum,
                                            total_pnl_rmb |-> total_pnl_sum,
                                            overall_return |-> overall_return],
                             holdings |-> pos,
                             overnight |-> yahoo,
                             risk_tips |-> CapTips(tips)])
    /\ pc' = "brief_done"
    /\ UNCHANGED <<inputVars, quotes, used, err, errors, calls, valuationVars, yahoo>>

Next ==
    \/ XueqiuFirst \/ XueqiuBackup \/ TencentOnly \/ AkshareFirst \/ AkshareBackup
    \/ FetchReturn \/ AppValuate
    \/ BriefFetch \/ BriefValuate \/ BriefYahoo \/ BriefBuild

Spec == Init /\ [][Next]_vars

----------------------------------------------------------------------------
(* Properties *)

\* fetch_prices has returned (or the render has gone on with its result)
AppFetched == pc \in {"app_return", "app_valuate", "app_done"}
AppReturned == pc \in {"app_valuate", "app_done"}
AppValued == pc = "app_done"
BriefValued == pc \in {"brief_yahoo", "brief_build", "brief_done"}
BriefEnded == pc \in {"brief_done", "brief_aborted"}

\* the provider order each policy names
ProviderOrder(p) ==
    CASE p = "xueqiu_first" -> <<"xueqiu", "tencent">>
      [] p = "tencent" -> <<"tencent">>
      [] OTHER -> <<"akshare", "tencent">>

\* the provider behind a label
LabelProvider(l) ==
    CASE l = "xueqiu" -> "xueqiu"
      [] l = "akshare" -> "akshare"
      [] OTHER -> "tencent"

AllRaised == calls # <<>> /\ \A i \in 1..Len(calls) : calls[i].outcome = "raise"

\* a sum over the present entries of a column, by position
RECURSIVE SumTo(_, _, _)
SumTo(rs, f, n) ==
    IF n = 0 THEN 0
    ELSE SumTo(rs, f, n - 1) + (IF rs[n][f] = None THEN 0 ELSE Val(rs[n][f]))

HasQuote(h) == zfill(h.code, CodeWidth) \in DOMAIN quotes
PrevOf(h) == quotes[zfill(h.code, CodeWidth)].prev_close

\* C1: providers are called in the policy's order, a later one exactly when
\* every earlier one raised or returned an empty mapping, and every earlier
\* (failed) provider left exactly one diagnostic: none is left besides those
\* when the last provider called returned data.  Stated for a portfolio with at
\* least one holding, where an empty mapping is a provider's failure to answer.
C1_FailoverOrder ==
    (AppFetched /\ holdings # <<>>) =>
        LET order == ProviderOrder(preferred)
            n == Len(calls)
        IN  /\ n >= 1 /\ n <= Len(order)
            /\ \A i \in 1..n : calls[i].provider = order[i]
            /\ \A i \in 1..(n - 1) : calls[i].outcome # "data"
            /\ (n < Len(order) => calls[n].outcome = "data")
            /\ Len(err) >= n - 1
            /\ (calls[n].outcome = "data" => Len(err) = n - 1)

\* C2: the returned label is present exactly when the returned mapping has an
\* entry, and then names the provider whose call produced that mapping.
\* Stated for a portfolio with at least one holding.
C2_UsedIffQuotes ==
    (AppFetched /\ holdings # <<>>) =>
        /\ (used # None) <=> Truthy(quotes)
        /\ (Truthy(quotes) =>
                /\ used # None
                /\ LabelProvider(Val(used)) = calls[Len(calls)].provider)

\* C3: no provider failure leaves fetch_prices; when every provider called
\* raised, the triple returned is (empty mapping, None, diagnostics) and the
\* table still has one row per holding, each with every derived field absent.
C3_NeverFatal ==
    /\ pc # "app_crashed"
    /\ (AppReturned /\ AllRaised) =>
            /\ quotes = EmptyDict
            /\ used = None
            /\ errors # None /\ Len(Val(errors)) = Len(calls)
    /\ (AppValued /\ AllRaised) =>
            /\ Len(rows) = Len(holdings)
            /\ \A i \in 1..Len(rows) :
                  /\ rows[i].code = zfill(holdings[i].code, CodeWidth)
                  /\ rows[i].mv = None /\ rows[i].today_pnl = None
                  /\ rows[i].today_return = None /\ rows[i].total_pnl = None
                  /\ rows[i].total_return = None

C3_Witness ==
    /\ AppValued /\ AllRaised /\ Len(calls) = 2
    /\ Len(holdings) = 2 /\ Len(rows) = 2

\* C4: every key of a mapping a provider returned is the 6-character
\* zero-padded form of a code and its last price is strictly positive.
C4_ProviderKeysAndPrices ==
    \A k \in DOMAIN quotes :
        /\ Len(k) = CodeWidth
        /\ k = zfill(k, CodeWidth)
        /\ quotes[k].last > 0

\* C5: in a row, market value and total P&L are present exactly when the
\* holding's normalized code has a quote, total return exactly when moreover
\* cost > 0, and today's P&L and return exactly when moreover the previous
\* close is present and > 0.
C5_RowPresence ==
    /\ AppValued =>
          \A i \in 1..Len(rows) :
              LET h == holdings[i]
                  today == HasQuote(h) /\ PrevOf(h) # None /\ Val(PrevOf(h)) > 0
              IN  /\ (rows[i].mv # None) <=> HasQuote(h)
                  /\ (rows[i].total_pnl # None) <=> HasQuote(h)
                  /\ (rows[i].total_return # None) <=> (HasQuote(h) /\ h.cost > 0)
                  /\ (rows[i].today_pnl # None) <=> today
                  /\ (rows[i].today_return # None) <=> today
    /\ BriefValued =>
          \A i \in 1..Len(pos) :
              LET h == holdings[i]
                  today == HasQuote(h) /\ PrevOf(h) # None /\ Val(PrevOf(h)) > 0
              IN  /\ (pos[i].market_value # None) <=> HasQuote(h)
                  /\ (pos[i].total_pnl # None) <=> HasQuote(h)
                  /\ (pos[i].total_return # None) <=> (HasQuote(h) /\ h.cost > 0)
                  /\ (pos[i].today_pnl # None) <=> today

\* the cost basis over all holdings, by position
RECURSIVE BasisTo(_)
BasisTo(n) == IF n = 0 THEN 0 ELSE BasisTo(n - 1) + holdings[n].cost * holdings[n].shares

OverallReturnIs(pnl) ==
    LET basis == BasisTo(Len(holdings))
    IN  /\ cost_basis = basis
        /\ (basis = 0 => overall_return = None)
        /\ (basis # 0 =>
                /\ overall_return # None
                /\ Val(overall_return).num * basis = pnl * Val(overall_return).den)

\* C6: overall_return is the sum of the present total P&L over the cost basis
\* of all holdings, and is absent when that basis is zero, on both paths.
C6_OverallReturn ==
    /\ AppValued => OverallReturnIs(SumTo(rows, "total_pnl", Len(rows)))
    /\ BriefValued => OverallReturnIs(SumTo(pos, "total_pnl", Len(pos)))

\* C7, as stated: with an empty quote map the three additive totals are zero
\* and, if the cost basis is positive, overall_return is absent.
C7_EmptyQuotesAbsentReturn ==
    ((AppValued \/ BriefValued) /\ ~Truthy(quotes)) =>
        /\ mv_sum = 0 /\ today_pnl_sum = 0 /\ total_pnl_sum = 0
        /\ (cost_basis > 0 => overall_return = None)

\* C7, amended: with an empty quote map the three additive totals are zero and,
\* if the cost basis is positive, overall_return is present and is zero.
C7_EmptyQuotesZeroReturn ==
    ((AppValued \/ BriefValued) /\ ~Truthy(quotes)) =>
        /\ mv_sum = 0 /\ today_pnl_sum = 0 /\ total_pnl_sum = 0
        /\ (cost_basis > 0 => overall_return # None /\ Val(overall_return).num = 0)

\* both providers of a policy failed, the holdings have a positive cost basis
C7_Witness ==
    /\ AppValued /\ ~Truthy(quotes) /\ Len(calls) = 2
    /\ \A i \in 1..Len(calls) : calls[i].outcome # "data"
    /\ Len(rows) >= 1 /\ cost_basis > 0
    /\ overall_return # None

CashIs(mv) ==
    /\ cash >= 0
    /\ (total_assets - mv >= 0 => cash = total_assets - mv)
    /\ (total_assets - mv < 0 => cash = 0)

\* C8: the cash estimate is total_assets less the sum of the present market
\* values, floored at zero: it is never negative, on both paths.
C8_CashNeverNegative ==
    /\ AppValued => CashIs(SumTo(rows, "mv", Len(rows)))
    /\ BriefValued => CashIs(SumTo(pos, "market_value", Len(pos)))

\* the dashboard's market values exceed the declared assets, with one row unpriced
C8_Witness ==
    /\ AppValued /\ total_assets > 0 /\ cash = 0
    /\ SumTo(rows, "mv", Len(rows)) > total_assets
    /\ \E i \in 1..Len(rows) : rows[i].mv = None

LinesOf(i, kind) == {j \in 1..Len(risk_tips) : risk_tips[j].row = i /\ risk_tips[j].kind = kind}

\* C9: a row gets a risk line exactly when its total return is present and
\* <= -8%, a take-profit line exactly when it is present and >= +12%, and no
\* other line; lines follow the holdings' order; the snapshot keeps the first
\* MaxTips of them.
C9_AdvisoryLines ==
    pc = "brief_done" =>
        /\ \A i \in 1..Len(pos) :
              LET r == pos[i].total_return
              IN  /\ Cardinality(LinesOf(i, "risk")) =
                        (IF r # None /\ 100 * Val(r).num <= RiskPct * Val(r).den
                         THEN 1 ELSE 0)
                  /\ Cardinality(LinesOf(i, "profit")) =
                        (IF r # None /\ 100 * Val(r).num >= ProfitPct * Val(r).den
                         THEN 1 ELSE 0)
        /\ \A j \in 1..Len(risk_tips) :
              /\ risk_tips[j].row \in 1..Len(pos)
              /\ risk_tips[j].kind \in {"risk", "profit"}
              /\ pos[risk_tips[j].row].total_return = Some(risk_tips[j].r)
        /\ \A j, k \in 1..Len(risk_tips) : j < k => risk_tips[j].row < risk_tips[k].row
        /\ LET kept == Val(brief).risk_tips
           IN  /\ Len(kept) = (IF Len(risk_tips) <= MaxTips THEN Len(risk_tips) ELSE MaxTips)
               /\ \A j \in 1..Len(kept) : kept[j] = risk_tips[j]

\* more lines than the cap, of both kinds, at the exact thresholds
C9_Witness ==
    /\ pc = "brief_done"
    /\ Len(risk_tips) > MaxTips
    /\ Len(Val(brief).risk_tips) = MaxTips
    /\ \E j, k \in 1..Len(risk_tips) :
          /\ risk_tips[j].kind = "risk" /\ risk_tips[k].kind = "profit"
          /\ 100 * risk_tips[j].r.num = RiskPct * risk_tips[j].r.den
          /\ 100 * risk_tips[k].r.num = ProfitPct * risk_tips[k].r.den

\* C10: a run of main() that has ended has saved its snapshot, whichever
\* external lookup failed.
C10_BriefAlwaysSaved == BriefEnded => brief # None

====
